---- MODULE Spec2Model ----
(***************************************************************************)
(* A model of funchain (src/funchain.go): the FunChain builder (New, Then, *)
(* Defer, Before, After, OnError), the driver FunChain.Do and the          *)
(* reflective invoker execFunc.                                            *)
(*                                                                         *)
(* Go values are records [t, v]: t is the dynamic type ("int", "string",   *)
(* "error", or "nil" for a nil interface value), v the payload written as  *)
(* a string.  A function value is a record [t |-> "func", in, out] whose   *)
(* in/out are the declared parameter and result types; "interface" is the  *)
(* empty interface type interface{}.  What the body of a user function     *)
(* does is outside the library: a call either panics or returns any tuple  *)
(* of values of its declared result types (Outcomes).  Hooks and cleanups  *)
(* are observers: they return or panic, and do not write the slices the    *)
(* driver hands them.  Variadic user functions are not modelled.           *)
(*                                                                         *)
(* Several specifications share the actions: Spec (the driver's control    *)
(* flow, with hooks and cleanups), SpecData (the data flow through steps   *)
(* and destinations), SpecBuild (builder calls with several arguments, nil *)
(* among them), SpecRerun (Do called twice on one chain), SpecTwin (a      *)
(* second run whose observers differ only in whether they panic), SpecNil  *)
(* (a second run without the nil hooks), SpecLive (Do under weak fairness  *)
(* of its steps) and SpecExec (execFunc called on its own).  In the        *)
(* two-run specifications prev holds what the first run produced.  A       *)
(* builder call that a panic leaves keeps the chain with the caller (pc    *)
(* "idle", panicOut set); New left by a panic yields no chain (pc          *)
(* "nochain").                                                             *)
(***************************************************************************)
EXTENDS Naturals, Sequences, FiniteSets

\* ------------------------------------------------------------------ bounds
\* The largest number of steps (fc.funcs) a chain is built with.
MaxFuncs == 2
\* The largest number of hooks and cleanups, together, a chain is built with.
MaxObservers == 2
\* The largest number of destinations passed to Do.
MaxOut == 2

\* ------------------------------------------------------------------ values
Nil == [t |-> "nil", v |-> "nil"]
I0 == [t |-> "int", v |-> "0"]
I7 == [t |-> "int", v |-> "7"]
S0 == [t |-> "string", v |-> ""]
Sa == [t |-> "string", v |-> "a"]
Boom == [t |-> "error", v |-> "boom"]

\* errors.New / fmt.Errorf values made by execFunc
ErrNotFunc == [t |-> "error", v |-> "not a function"]
ErrMoreThanOne == [t |-> "error", v |-> "more than one error"]
ErrPanic(r) == [t |-> "error", v |-> "panic occurred: " \o r]

\* payloads of the panics package reflect raises
PanicTooFew == "reflect: Call with too few input arguments"
PanicTooMany == "reflect: Call with too many input arguments"
PanicZeroArg == "reflect: Call using zero Value argument"
PanicNotAssignable == "reflect: Call using value as another type"
PanicSet == "reflect.Set: value is not assignable"
\* payload of the run-time panic of a method call on a nil interface value
PanicNilDeref == "runtime error: invalid memory address or nil pointer dereference"
\* payload of a panic raised by the body of a step
PanicUser == "step panic"
\* payload of a panic raised by a hook or a cleanup
PanicHook == "hook panic"

\* reflect.Zero(t).Interface(): what a callee sees in a padded position
Zero(t) ==
  CASE t = "int" -> I0
    [] t = "string" -> S0
    [] OTHER -> Nil

\* the values a user function may return in a result position of type t
Returns(t) ==
  CASE t = "int" -> {I7}
    [] t = "string" -> {Sa}
    [] t = "error" -> {Nil, Boom}
    [] OTHER -> {Nil, I7}

Values == {Nil, I0, I7, S0, Sa, Boom}

\* reflect's Type.AssignableTo for a value of dynamic type vt and a declared type t
AssignableTo(vt, t) ==
  \/ vt = t
  \/ t = "interface" /\ vt # "nil"

\* ------------------------------------------------------------------ functions
Func(ins, outs) == [t |-> "func", in |-> ins, out |-> outs]

\* reflect.TypeOf(fn).Kind() == reflect.Func
IsFunc(fn) == fn.t = "func"

Panicked == [panic |-> TRUE, ret |-> <<>>]
Returned(r) == [panic |-> FALSE, ret |-> r]

\* every way a call of f can end: a panic, or a tuple of its result types
Outcomes(f) ==
  {Panicked} \cup
  {Returned(r) : r \in {s \in [1..Len(f.out) -> Values] :
                          \A i \in 1..Len(f.out) : s[i] \in Returns(f.out[i])}}

\* ------------------------------------------------------------------ execFunc
\* reflect.ValueOf(x): the zero (invalid) Value for a nil interface value
ValueOf(x) == [valid |-> x # Nil, typ |-> x.t, val |-> x]

\* reflect.Zero(t): a valid Value of type t holding t's zero value
ReflectZero(t) == [valid |-> TRUE, typ |-> t, val |-> Zero(t)]

Max(a, b) == IF a >= b THEN a ELSE b

\* the positions of f's results whose declared type is error
ErrIndexes(f) == {i \in 1..Len(f.out) : f.out[i] = "error"}

\* errIndex after the scan: the error position, 0 when there is none (-1 in Go)
ErrIndex(f) == IF ErrIndexes(f) = {} THEN 0 ELSE CHOOSE i \in ErrIndexes(f) : TRUE

\* a scan that never rejects a signature
MoreThanOneErrorNever(f) == FALSE

\* the scan of f's results meets a second one whose declared type is error
MoreThanOneError(f) == Cardinality(ErrIndexes(f)) > 1

\* the arguments alone, the missing positions not filled
BuildInNoPad(f, args) == [i \in 1..Len(args) |-> ValueOf(args[i])]

\* the slice in: every argument through reflect.ValueOf, then a zero Value of
\* the declared type for each parameter position the arguments do not reach
BuildIn(f, args) ==
  [i \in 1..Max(Len(args), Len(f.in)) |->
     IF i <= Len(args) THEN ValueOf(args[i]) ELSE ReflectZero(f.in[i])]

\* the panic reflect.Value.Call raises before the callee runs, "" when it calls
CallPanic(f, in) ==
  IF Len(in) < Len(f.in) THEN PanicTooFew
  ELSE IF Len(in) > Len(f.in) THEN PanicTooMany
  ELSE IF \E i \in 1..Len(in) : ~in[i].valid THEN PanicZeroArg
  ELSE IF \E i \in 1..Len(in) : ~AssignableTo(in[i].typ, f.in[i])
       THEN PanicNotAssignable
  ELSE ""

\* the last result is dropped, wherever the error stands
SplitResultDropLast(ret, errIndex) ==
  [j \in 1..(Len(ret) - (IF errIndex = 0 THEN 0 ELSE 1)) |-> ret[j]]

\* the results in declared order without the one at errIndex
SplitResult(ret, errIndex) ==
  [j \in 1..(Len(ret) - (IF errIndex = 0 THEN 0 ELSE 1)) |->
     IF errIndex = 0 \/ j < errIndex THEN ret[j] ELSE ret[j + 1]]

\* the error position is never read
SplitErrNone(ret, errIndex) == Nil

\* the error taken from position errIndex (nil when there is no such position
\* or the value there is a nil error)
SplitErr(ret, errIndex) == IF errIndex = 0 THEN Nil ELSE ret[errIndex]

\* a recover that leaves err unset
RecoveredDropped(r) == Nil

\* the deferred recover of execFunc: a panic r of the call becomes the error
\* "panic occurred: r"
Recovered(r) == ErrPanic(r)

\* funcType := reflect.TypeOf(f) is the nil Type for a nil interface value f,
\* and funcType.Kind() panics on it, outside the recover of execFunc: the
\* payload of that panic, "" when Kind() returns
TypeOfPanic(f) == IF f = Nil THEN PanicNilDeref ELSE ""

\* execFunc(f, args) when the body of f, if it is reached, ends as oc.
\* called: whether f's body ran; in: the arguments it received;
\* result, err: what execFunc returns; panic: the payload of the panic that
\* leaves execFunc instead, "" when it returns.
ExecFunc(f, args, oc) ==
  LET in == BuildIn(f, args)
      notCalled(e) == [called |-> FALSE, in |-> <<>>, result |-> <<>>, err |-> e,
                       panic |-> ""]
  IN IF TypeOfPanic(f) # ""
     THEN [called |-> FALSE, in |-> <<>>, result |-> <<>>, err |-> Nil,
           panic |-> TypeOfPanic(f)]
     ELSE IF ~IsFunc(f) THEN notCalled(ErrNotFunc)
     ELSE IF MoreThanOneError(f) THEN notCalled(ErrMoreThanOne)
     ELSE IF CallPanic(f, in) # "" THEN notCalled(Recovered(CallPanic(f, in)))
     ELSE IF oc.panic
          THEN [called |-> TRUE, in |-> [i \in 1..Len(in) |-> in[i].val],
                result |-> <<>>, err |-> Recovered(PanicUser), panic |-> ""]
     ELSE [called |-> TRUE, in |-> [i \in 1..Len(in) |-> in[i].val],
           result |-> SplitResult(oc.ret, ErrIndex(f)),
           err |-> SplitErr(oc.ret, ErrIndex(f)), panic |-> ""]

\* ------------------------------------------------------------------ state
VARIABLES
  funcs,        \* fc.funcs: the steps
  defers,       \* fc.defers: the cleanups ("ok", "panic" or "nil")
  beforeHooks,  \* fc.beforeHooks ("ok", "panic" or "nil")
  afterHooks,   \* fc.afterHooks
  errHooks,     \* fc.errHooks
  pc,           \* where the caller or the running Do stands
  out,          \* Do's destinations, with what each variable holds
  deferStack,   \* the deferred calls Do has registered and not yet run
  fnIdx,        \* the position of the loop over fc.funcs (1-based)
  hookIdx,      \* the position of the running loop over a hook list
  outIdx,       \* i of the loop over out (1-based)
  args,         \* Do's args
  args2,        \* Do's args2
  err,          \* Do's named result err
  result,       \* Do's named result result
  panicOut,     \* the payload of a panic leaving the last call (Do, New or
                \* Then), "" when there is none
  log,          \* what user code observed during this Do call, in order
  prev          \* what the caller keeps of the Do call before this one, when
                \* it calls Do a second time on the chain as it is

chain == <<funcs, defers, beforeHooks, afterHooks, errHooks>>
run == <<out, deferStack, fnIdx, hookIdx, outIdx, args, args2, err, result,
         panicOut, log, prev>>
vars == <<chain, pc, run>>

\* ------------------------------------------------------------------ builder
\* the caller keeps nothing of an earlier Do call
NoPrev == [again |-> FALSE, log |-> <<>>, result |-> <<>>, err |-> Nil,
           out |-> <<>>, panicOut |-> ""]

\* run variables of a chain no Do call is running on, after a builder call
\* that a panic p left ("" when it returned)
NoRunAfter(p) ==
  /\ pc' = "idle"
  /\ out' = <<>> /\ deferStack' = <<>>
  /\ fnIdx' = 1 /\ hookIdx' = 1 /\ outIdx' = 1
  /\ args' = <<>> /\ args2' = <<>> /\ err' = Nil /\ result' = <<>>
  /\ panicOut' = p /\ log' = <<>> /\ prev' = NoPrev

\* run variables after a builder call that returned
NoRun == NoRunAfter("")

\* the caller holds the chain: no Do call is running on it
Idle == pc \in {"idle", "done"}

\* every argument is kept, whatever its kind
KeepAll(fns) == fns

\* the arguments of New or Then that are kept: the functions, in order
KeepFuncs(fns) == SelectSeq(fns, IsFunc)

\* reflect.TypeOf(fn) is the nil Type for a nil interface value, and the call
\* of Kind() on it panics
KindPanics(fn) == fn = Nil

\* the arguments the loop of New or Then gets through: all of them, or those
\* before the first one on which Kind() panics
Scanned(fns) ==
  IF \E i \in 1..Len(fns) : KindPanics(fns[i])
  THEN SubSeq(fns, 1, (CHOOSE i \in 1..Len(fns) :
                         /\ KindPanics(fns[i])
                         /\ \A j \in 1..(i - 1) : ~KindPanics(fns[j])) - 1)
  ELSE fns

\* the payload of the panic that leaves the loop of New or Then, "" when none
ScanPanic(fns) ==
  IF \E i \in 1..Len(fns) : KindPanics(fns[i]) THEN PanicNilDeref ELSE ""

NumObservers == Len(defers) + Len(beforeHooks) + Len(afterHooks) + Len(errHooks)

\* New(fns...)
New(fns) ==
  /\ funcs = KeepFuncs(Scanned(fns))
  /\ defers = <<>> /\ beforeHooks = <<>> /\ afterHooks = <<>> /\ errHooks = <<>>
  /\ pc = IF ScanPanic(fns) = "" THEN "idle" ELSE "nochain"
  /\ out = <<>> /\ deferStack = <<>>
  /\ fnIdx = 1 /\ hookIdx = 1 /\ outIdx = 1
  /\ args = <<>> /\ args2 = <<>> /\ err = Nil /\ result = <<>>
  /\ panicOut = ScanPanic(fns) /\ log = <<>> /\ prev = NoPrev

\* fc.Then(fns...)
Then(fns) ==
  /\ Idle
  /\ Len(funcs) + Len(fns) <= MaxFuncs
  /\ funcs' = funcs \o KeepFuncs(Scanned(fns))
  /\ UNCHANGED <<defers, beforeHooks, afterHooks, errHooks>>
  /\ NoRunAfter(ScanPanic(fns))

\* fc.Defer(fs...)
Defer(fs) ==
  /\ Idle
  /\ NumObservers + Len(fs) <= MaxObservers
  /\ defers' = defers \o fs
  /\ UNCHANGED <<funcs, beforeHooks, afterHooks, errHooks>>
  /\ NoRun

\* fc.Before(hooks...)
Before(hooks) ==
  /\ Idle
  /\ NumObservers + Len(hooks) <= MaxObservers
  /\ beforeHooks' = beforeHooks \o hooks
  /\ UNCHANGED <<funcs, defers, afterHooks, errHooks>>
  /\ NoRun

\* fc.After(hooks...)
After(hooks) ==
  /\ Idle
  /\ NumObservers + Len(hooks) <= MaxObservers
  /\ afterHooks' = afterHooks \o hooks
  /\ UNCHANGED <<funcs, defers, beforeHooks, errHooks>>
  /\ NoRun

\* fc.OnError(hooks...)
OnError(hooks) ==
  /\ Idle
  /\ NumObservers + Len(hooks) <= MaxObservers
  /\ errHooks' = errHooks \o hooks
  /\ UNCHANGED <<funcs, defers, beforeHooks, afterHooks>>
  /\ NoRun

\* ------------------------------------------------------------------ Do
\* one observation of user code: a hook fired ("before", "after", "error"), a
\* step's body ran ("call"), execFunc returned for a step ("exec"), a deferred
\* cleanup ran ("defer").  h is how the hook, body or cleanup ended.
Event(k, step, idx, h, a, b, e) ==
  [k |-> k, step |-> step, idx |-> idx, h |-> h, a |-> a, b |-> b, e |-> e]

\* a loop that fires the Before hooks once before it tests for a first step
LoopHeadHooksFirst(i) ==
  IF i <= Len(funcs) \/ (i = 1 /\ beforeHooks # <<>>) THEN "before" ELSE "bind"

\* the head of the loop over fc.funcs: the next step's Before hooks, or the
\* loop over out when the steps are exhausted
LoopHead(i) == IF i <= Len(funcs) THEN "before" ELSE "bind"

\* a wrapper without recover: the panic of h leaves it
UnrecoveredCall(h) == IF h = "panic" THEN PanicHook ELSE ""

\* the payload of the panic that leaves the wrapper func() { defer recover; h() }
\* around a hook or cleanup h: none, whatever h does
RecoveredCall(h) == ""

\* every entry of a hook list is called, a nil one too
FiresAlways(h) == TRUE

\* a hook list's entry is fired unless it is nil
Fires(h) == h # "nil"

\* a panic that leaves Do at once, past the deferred calls
PanicLeavesAtOnce == "done"

\* where a panic in the body of Do goes: the deferred calls run before it
\* leaves Do
PanicLeaves == "unwind"

\* deferred calls run first-registered-first
NextDeferredFirst(stack) == 1

\* the deferred call that runs next: the last one registered
NextDeferred(stack) == Len(stack)

\* args kept from the call before, as a field of the chain would be
FirstArgsKept == args

\* var args []interface{}: a local of Do, nil when the call starts
FirstArgs == <<>>

\* fc.Do(out...), up to the first step: the deferred wrappers are registered
\* in the order of fc.defers, args is empty
DoStart(o) ==
  /\ Idle
  /\ out' = o
  /\ deferStack' = [j \in 1..Len(defers) |-> j]
  /\ fnIdx' = 1 /\ hookIdx' = 1 /\ outIdx' = 1
  /\ args' = FirstArgs /\ args2' = <<>> /\ err' = Nil /\ result' = <<>>
  /\ panicOut' = "" /\ log' = <<>> /\ prev' = NoPrev
  /\ pc' = LoopHead(1)
  /\ UNCHANGED chain

\* fc.Do(out...) once more on the chain a Do call has just left, up to the
\* first step; the caller keeps what it saw of the call before
DoAgain(o) ==
  /\ pc = "done"
  /\ ~prev.again
  /\ prev' = [again |-> TRUE, log |-> log, result |-> result, err |-> err,
               out |-> out, panicOut |-> panicOut]
  /\ out' = o
  /\ deferStack' = [j \in 1..Len(defers) |-> j]
  /\ fnIdx' = 1 /\ hookIdx' = 1 /\ outIdx' = 1
  /\ args' = FirstArgs /\ args2' = <<>> /\ err' = Nil /\ result' = <<>>
  /\ panicOut' = "" /\ log' = <<>>
  /\ pc' = LoopHead(1)
  /\ UNCHANGED chain

\* hook or cleanup lists like hooks, entry by entry a func value that is nil
\* where hooks has a nil one, and returns or panics where it has a non-nil one
TwinsOf(hooks) ==
  {t \in [1..Len(hooks) -> {"ok", "panic", "nil"}] :
     \A j \in 1..Len(hooks) : (t[j] = "nil") <=> (hooks[j] = "nil")}

\* the destination d as the caller passes it, before any Do call has written it
AsPassed(d) ==
  [d EXCEPT !.val = IF d.k = "nilptr" \/ d.et = "interface" THEN Nil ELSE Zero(d.et)]

\* fc.Do(out...) after a Do call has ended, with the same steps and the same
\* destinations, on hooks and cleanups that differ from those of the call
\* before only in which of them panic; the caller keeps what it saw before
DoTwin(d, b, a, e) ==
  /\ pc = "done"
  /\ ~prev.again
  /\ prev' = [again |-> TRUE, log |-> log, result |-> result, err |-> err,
               out |-> out, panicOut |-> panicOut]
  /\ defers' = d /\ beforeHooks' = b /\ afterHooks' = a /\ errHooks' = e
  /\ out' = [i \in 1..Len(out) |-> AsPassed(out[i])]
  /\ deferStack' = [j \in 1..Len(d) |-> j]
  /\ fnIdx' = 1 /\ hookIdx' = 1 /\ outIdx' = 1
  /\ args' = FirstArgs /\ args2' = <<>> /\ err' = Nil /\ result' = <<>>
  /\ panicOut' = "" /\ log' = <<>>
  /\ pc' = LoopHead(1)
  /\ UNCHANGED funcs

\* the entries of a hook list that are not nil, in order
SansNil(hooks) ==
  LET NotNil(h) == h # "nil"
  IN SelectSeq(hooks, NotNil)

\* fc.Do(out...) after a Do call has ended, with the same steps, cleanups and
\* destinations, on hook lists that are those of the call before without
\* their nil entries; the caller keeps what it saw before
DoSansNil ==
  /\ pc = "done"
  /\ ~prev.again
  /\ prev' = [again |-> TRUE, log |-> log, result |-> result, err |-> err,
               out |-> out, panicOut |-> panicOut]
  /\ beforeHooks' = SansNil(beforeHooks)
  /\ afterHooks' = SansNil(afterHooks)
  /\ errHooks' = SansNil(errHooks)
  /\ out' = [i \in 1..Len(out) |-> AsPassed(out[i])]
  /\ deferStack' = [j \in 1..Len(defers) |-> j]
  /\ fnIdx' = 1 /\ hookIdx' = 1 /\ outIdx' = 1
  /\ args' = FirstArgs /\ args2' = <<>> /\ err' = Nil /\ result' = <<>>
  /\ panicOut' = "" /\ log' = <<>>
  /\ pc' = LoopHead(1)
  /\ UNCHANGED <<funcs, defers>>

\* execFunc(f, a) called on its own, as code of the package may call it; the
\* caller sees what it returns, or the panic that leaves it
ExecDirect(f, a) ==
  /\ pc \in {"idle", "called"}
  /\ \E oc \in (IF IsFunc(f) THEN Outcomes(f) ELSE {Panicked}) :
       LET r == ExecFunc(f, a, oc)
           direct == Event("direct", 0, 0, "ok", a, <<f>>, Nil)
           call == Event("call", 0, 0, IF oc.panic THEN "panic" ELSE "ok",
                         r.in, oc.ret, Nil)
       IN /\ args2' = r.result
          /\ err' = r.err
          /\ panicOut' = r.panic
          /\ log' = IF r.called THEN <<direct, call>> ELSE <<direct>>
  /\ args' = a
  /\ pc' = "called"
  /\ UNCHANGED <<chain, prev, out, deferStack, fnIdx, hookIdx, outIdx, result>>

\* the callables are deterministic: in a second Do call the body of step s,
\* when it receives what it received in the call before, ends as it ended then
Replays(s, in, oc) ==
  \A m \in 1..Len(prev.log) :
    prev.log[m].k = "call" /\ prev.log[m].step = s /\ prev.log[m].a = in =>
      /\ prev.log[m].h = (IF oc.panic THEN "panic" ELSE "ok")
      /\ prev.log[m].b = oc.ret

\* a driver that goes on whether or not the hooks have all been called
ThroughAnytime(hooks) == TRUE

\* the running loop over a hook list is through: the statement after it is next
Through(hooks) == hookIdx > Len(hooks)

\* one iteration of the loop over fc.beforeHooks
BeforeHook ==
  /\ pc = "before"
  /\ hookIdx <= Len(beforeHooks)
  /\ LET h == beforeHooks[hookIdx]
     IN /\ log' = IF Fires(h)
                  THEN Append(log, Event("before", fnIdx, hookIdx, h, args, <<>>, Nil))
                  ELSE log
        /\ IF Fires(h) /\ h = "panic" /\ RecoveredCall(h) # ""
           THEN pc' = PanicLeaves /\ panicOut' = RecoveredCall(h) /\ hookIdx' = hookIdx
           ELSE pc' = pc /\ panicOut' = panicOut /\ hookIdx' = hookIdx + 1
  /\ UNCHANGED <<chain, prev, out, deferStack, fnIdx, outIdx, args, args2, err, result>>

\* args2, err = execFunc(fn, args); the body of fn, if it is called, ends in
\* any of the ways it can
Exec ==
  /\ pc = "before"
  /\ Through(beforeHooks)
  /\ \E oc \in Outcomes(funcs[fnIdx]) :
       LET r == ExecFunc(funcs[fnIdx], args, oc)
           call == Event("call", fnIdx, 0, IF oc.panic THEN "panic" ELSE "ok",
                         r.in, oc.ret, Nil)
           exec == Event("exec", fnIdx, 0, "ok", args, r.result, r.err)
       IN /\ r.called => Replays(fnIdx, r.in, oc)
          /\ IF r.panic # ""
             THEN /\ args2' = args2 /\ err' = err /\ log' = log
                  /\ pc' = PanicLeaves /\ panicOut' = r.panic
             ELSE /\ args2' = r.result
                  /\ err' = r.err
                  /\ log' = IF r.called THEN log \o <<call, exec>> ELSE Append(log, exec)
                  /\ pc' = "after" /\ panicOut' = panicOut
  /\ hookIdx' = 1
  /\ UNCHANGED <<chain, prev, out, deferStack, fnIdx, outIdx, args, result>>

\* the hook is handed the step's arguments a second time
AfterHookOutputStale == args

\* the second slice an After hook is handed: hook(args, args2)
AfterHookOutput == args2

\* After hooks that are called only for a step that returned a nil error
AfterHookOnSuccess ==
  /\ pc = "after"
  /\ hookIdx <= Len(afterHooks)
  /\ LET h == afterHooks[hookIdx]
     IN log' = IF Fires(h) /\ ~(err # Nil)
               THEN Append(log, Event("after", fnIdx, hookIdx, h, args, args2, Nil))
               ELSE log
  /\ hookIdx' = hookIdx + 1
  /\ UNCHANGED <<chain, prev, pc, out, deferStack, fnIdx, outIdx, args, args2, err,
                 result, panicOut>>

\* one iteration of the loop over fc.afterHooks
AfterHook ==
  /\ pc = "after"
  /\ hookIdx <= Len(afterHooks)
  /\ LET h == afterHooks[hookIdx]
     IN /\ log' = IF Fires(h)
                  THEN Append(log, Event("after", fnIdx, hookIdx, h, args,
                                         AfterHookOutput, Nil))
                  ELSE log
        /\ IF Fires(h) /\ h = "panic" /\ RecoveredCall(h) # ""
           THEN pc' = PanicLeaves /\ panicOut' = RecoveredCall(h) /\ hookIdx' = hookIdx
           ELSE pc' = pc /\ panicOut' = panicOut /\ hookIdx' = hookIdx + 1
  /\ UNCHANGED <<chain, prev, out, deferStack, fnIdx, outIdx, args, args2, err, result>>

\* a driver that never sees a step's error
IsErrNever(e) == FALSE

\* the test err != nil that ends the run after a step
IsErr(e) == e # Nil

\* a loop that stays on the step it has run
NextStepSame(i) == i

\* the step after step i in the range over fc.funcs
NextStep(i) == i + 1

\* err == nil after the After hooks: args = args2, on to the next step
StepOk ==
  /\ pc = "after"
  /\ Through(afterHooks)
  /\ ~IsErr(err)
  /\ args' = args2
  /\ fnIdx' = NextStep(fnIdx)
  /\ hookIdx' = 1
  /\ pc' = LoopHead(NextStep(fnIdx))
  /\ UNCHANGED <<chain, prev, out, deferStack, outIdx, args2, err, result, panicOut, log>>

\* err != nil only ends the loop over the steps: the loop over out is next
StepFailedBreaks ==
  /\ pc = "after"
  /\ Through(afterHooks)
  /\ IsErr(err)
  /\ pc' = "bind"
  /\ hookIdx' = 1
  /\ UNCHANGED <<chain, prev, out, deferStack, fnIdx, outIdx, args, args2, err, result,
                 panicOut, log>>

\* err != nil after the After hooks: into the loop over fc.errHooks
StepFailed ==
  /\ pc = "after"
  /\ Through(afterHooks)
  /\ IsErr(err)
  /\ pc' = "onerror"
  /\ hookIdx' = 1
  /\ UNCHANGED <<chain, prev, out, deferStack, fnIdx, outIdx, args, args2, err, result,
                 panicOut, log>>

\* the hook is handed the arguments of the failing step
ErrHookInputArgs == args

\* the slice an error hook is handed: hook(args2, err)
ErrHookInput == args2

\* one iteration of the loop over fc.errHooks
ErrHook ==
  /\ pc = "onerror"
  /\ hookIdx <= Len(errHooks)
  /\ LET h == errHooks[hookIdx]
     IN /\ log' = IF Fires(h)
                  THEN Append(log, Event("error", fnIdx, hookIdx, h, ErrHookInput, <<>>, err))
                  ELSE log
        /\ IF Fires(h) /\ h = "panic" /\ RecoveredCall(h) # ""
           THEN pc' = PanicLeaves /\ panicOut' = RecoveredCall(h) /\ hookIdx' = hookIdx
           ELSE pc' = pc /\ panicOut' = panicOut /\ hookIdx' = hookIdx + 1
  /\ UNCHANGED <<chain, prev, out, deferStack, fnIdx, outIdx, args, args2, err, result>>

\* return args2, err
ReturnErr ==
  /\ pc = "onerror"
  /\ Through(errHooks)
  /\ result' = args2
  /\ pc' = "unwind"
  /\ UNCHANGED <<chain, prev, out, deferStack, fnIdx, hookIdx, outIdx, args, args2, err,
                 panicOut, log>>

\* every destination is written
CanSetAlways(d) == TRUE

\* no destination is written
CanSetNever(d) == FALSE

\* dst.CanSet() after dst = dst.Elem() for a pointer: only what a non-nil
\* pointer points to can be set
CanSet(d) == d.k = "ptr"

\* the panic of dst.Set(src), "" when it sets: src must be a valid Value
\* assignable to the type of the variable
SetPanic(d, x) ==
  IF ValueOf(x).valid /\ AssignableTo(ValueOf(x).typ, d.et) THEN "" ELSE PanicSet

\* one iteration of the loop over out
BindStep ==
  /\ pc = "bind"
  /\ outIdx <= Len(out)
  /\ outIdx <= Len(args)
  /\ IF ~CanSet(out[outIdx])
     THEN out' = out /\ outIdx' = outIdx + 1 /\ pc' = pc /\ panicOut' = panicOut
     ELSE IF SetPanic(out[outIdx], args[outIdx]) # ""
     THEN /\ out' = out /\ outIdx' = outIdx /\ pc' = PanicLeaves
          /\ panicOut' = SetPanic(out[outIdx], args[outIdx])
     ELSE /\ out' = [out EXCEPT ![outIdx].val = args[outIdx]]
          /\ outIdx' = outIdx + 1 /\ pc' = pc /\ panicOut' = panicOut
  /\ UNCHANGED <<chain, prev, deferStack, fnIdx, hookIdx, args, args2, err, result, log>>

\* return args, nil
ReturnOk ==
  /\ pc = "bind"
  /\ ~(outIdx <= Len(out) /\ outIdx <= Len(args))
  /\ result' = args
  /\ err' = Nil
  /\ pc' = "unwind"
  /\ UNCHANGED <<chain, prev, out, deferStack, fnIdx, hookIdx, outIdx, args, args2,
                 panicOut, log>>

\* one deferred wrapper runs its cleanup; the wrapper recovers a panic of it
RunDefer ==
  /\ pc = "unwind"
  /\ deferStack # <<>>
  /\ LET n == NextDeferred(deferStack)
         j == deferStack[n]
         h == IF defers[j] = "ok" THEN "ok" ELSE "panic"
     IN /\ log' = Append(log, Event("defer", 0, j, h, <<>>, <<>>, Nil))
        /\ deferStack' = [m \in 1..(Len(deferStack) - 1) |->
                            IF m < n THEN deferStack[m] ELSE deferStack[m + 1]]
        /\ panicOut' = IF h = "panic" /\ RecoveredCall(h) # ""
                       THEN RecoveredCall(h) ELSE panicOut
  /\ UNCHANGED <<chain, prev, pc, out, fnIdx, hookIdx, outIdx, args, args2, err, result>>

\* a Do that uses its cleanups up: fc.defers is empty when it is left
ExitClearsDefers ==
  /\ pc = "unwind"
  /\ deferStack = <<>>
  /\ pc' = "done"
  /\ defers' = <<>>
  /\ UNCHANGED <<funcs, beforeHooks, afterHooks, errHooks, run>>

\* Do is left: it returns (result, err), or the panic panicOut goes on to the caller
Exit ==
  /\ pc = "unwind"
  /\ deferStack = <<>>
  /\ pc' = "done"
  /\ UNCHANGED <<chain, run>>

\* ------------------------------------------------------------------ inputs
\* user functions, by signature
FGen == Func(<<>>, <<"int", "error">>)
FInc == Func(<<"int">>, <<"int">>)
FMul == Func(<<"int", "int">>, <<"int">>)
FPair == Func(<<>>, <<"int", "string">>)
FStr == Func(<<"string">>, <<"interface">>)
FAny == Func(<<"interface">>, <<"error", "string">>)
FVoid == Func(<<>>, <<>>)
FTwoErr == Func(<<>>, <<"error", "error">>)

\* values that are not functions, as New and Then may be handed
NonFuncs == {I7}

\* destinations: a pointer to a variable of type et holding val, a value that
\* is no pointer, a nil pointer
PtrInt == [k |-> "ptr", et |-> "int", val |-> I0]
PtrStr == [k |-> "ptr", et |-> "string", val |-> S0]
PtrAny == [k |-> "ptr", et |-> "interface", val |-> Nil]
NotPtr == [k |-> "value", et |-> "int", val |-> I0]
NilPtr == [k |-> "nilptr", et |-> "int", val |-> Nil]

SeqsUpTo(S, n) == UNION {[1..m -> S] : m \in 0..n}

\* hooks and cleanups: one that returns, one that panics, a nil func value
Observers == {"ok", "panic", "nil"}

\* --- the specification of the driver's control flow: hooks, cleanups, steps
CtlFuncs == {FGen, FInc, FTwoErr}
CtlOuts == {<<>>, <<PtrInt>>, <<PtrStr>>}

Init == \E fns \in SeqsUpTo(CtlFuncs \cup NonFuncs, 1) : New(fns)

Next ==
  \/ \E x \in CtlFuncs \cup NonFuncs : Then(<<x>>)
  \/ \E h \in Observers : Defer(<<h>>)
  \/ \E h \in Observers : Before(<<h>>)
  \/ \E h \in Observers : After(<<h>>)
  \/ \E h \in Observers : OnError(<<h>>)
  \/ \E o \in CtlOuts : DoStart(o)
  \/ BeforeHook
  \/ Exec
  \/ AfterHook
  \/ StepOk
  \/ StepFailed
  \/ ErrHook
  \/ ReturnErr
  \/ BindStep
  \/ ReturnOk
  \/ RunDefer
  \/ Exit

Spec == Init /\ [][Next]_vars

\* --- the specification of the data flow: argument vectors, results, destinations
DataFuncs == {FGen, FMul, FPair, FStr, FAny, FVoid, FTwoErr}
DataDests == {PtrInt, PtrStr, PtrAny, NotPtr, NilPtr}

InitData == \E fns \in SeqsUpTo(DataFuncs \cup NonFuncs, 1) : New(fns)

NextData ==
  \/ \E x \in DataFuncs \cup NonFuncs : Then(<<x>>)
  \/ \E o \in SeqsUpTo(DataDests, MaxOut) : DoStart(o)
  \/ Exec
  \/ StepOk
  \/ StepFailed
  \/ ReturnErr
  \/ BindStep
  \/ ReturnOk
  \/ Exit

SpecData == InitData /\ [][NextData]_vars

\* --- the specification of the builder: calls with zero, one or two arguments,
\* nil among them, and Do on the chains they build
BuildArgs == {FGen, FInc, I7, Nil}
BuildOuts == {<<>>, <<PtrInt>>}
ArgLists(S) == {<<>>} \cup {<<x>> : x \in S} \cup {<<x, y>> : x \in S, y \in S}

InitBuild == \E fns \in ArgLists(BuildArgs) : New(fns)

NextBuild ==
  \/ \E fns \in ArgLists(BuildArgs) : Then(fns)
  \/ \E fs \in ArgLists(Observers) : Defer(fs)
  \/ \E hooks \in ArgLists(Observers) : Before(hooks)
  \/ \E hooks \in ArgLists(Observers) : After(hooks)
  \/ \E hooks \in ArgLists(Observers) : OnError(hooks)
  \/ \E o \in BuildOuts : DoStart(o)
  \/ BeforeHook
  \/ Exec
  \/ AfterHook
  \/ StepOk
  \/ StepFailed
  \/ ErrHook
  \/ ReturnErr
  \/ BindStep
  \/ ReturnOk
  \/ RunDefer
  \/ Exit

SpecBuild == InitBuild /\ [][NextBuild]_vars

\* --- the specification of re-invocation: Do called twice on a chain, the
\* steps, hooks and cleanups being deterministic
RerunFuncs == {FGen, FInc}
RerunObservers == {"ok", "panic"}
RerunOuts == {<<>>, <<PtrInt>>}

InitRerun == \E fns \in SeqsUpTo(RerunFuncs, 1) : New(fns)

NextRerun ==
  \/ \E x \in RerunFuncs : Then(<<x>>)
  \/ \E h \in RerunObservers : Defer(<<h>>)
  \/ \E h \in RerunObservers : Before(<<h>>)
  \/ \E h \in RerunObservers : After(<<h>>)
  \/ \E h \in RerunObservers : OnError(<<h>>)
  \/ \E o \in RerunOuts : DoStart(o)
  \/ \E o \in RerunOuts : DoAgain(o)
  \/ BeforeHook
  \/ Exec
  \/ AfterHook
  \/ StepOk
  \/ StepFailed
  \/ ErrHook
  \/ ReturnErr
  \/ BindStep
  \/ ReturnOk
  \/ RunDefer
  \/ Exit

SpecRerun == InitRerun /\ [][NextRerun]_vars

\* --- the specification of two runs that differ in which hooks and cleanups
\* panic, the steps being deterministic
InitTwin == \E fns \in SeqsUpTo(RerunFuncs, 1) : New(fns)

NextTwin ==
  \/ \E x \in RerunFuncs : Then(<<x>>)
  \/ \E h \in RerunObservers : Defer(<<h>>)
  \/ \E h \in RerunObservers : Before(<<h>>)
  \/ \E h \in RerunObservers : After(<<h>>)
  \/ \E h \in RerunObservers : OnError(<<h>>)
  \/ \E o \in RerunOuts : DoStart(o)
  \/ \E d \in TwinsOf(defers), b \in TwinsOf(beforeHooks),
        a \in TwinsOf(afterHooks), e \in TwinsOf(errHooks) : DoTwin(d, b, a, e)
  \/ BeforeHook
  \/ Exec
  \/ AfterHook
  \/ StepOk
  \/ StepFailed
  \/ ErrHook
  \/ ReturnErr
  \/ BindStep
  \/ ReturnOk
  \/ RunDefer
  \/ Exit

SpecTwin == InitTwin /\ [][NextTwin]_vars

\* --- the specification of nil hooks: a run on hook lists that may hold nil
\* entries, then a run without them, the steps being deterministic
InitNil == \E fns \in SeqsUpTo(RerunFuncs, 1) : New(fns)

NextNil ==
  \/ \E x \in RerunFuncs : Then(<<x>>)
  \/ \E h \in Observers : Before(<<h>>)
  \/ \E h \in Observers : After(<<h>>)
  \/ \E h \in Observers : OnError(<<h>>)
  \/ \E o \in RerunOuts : DoStart(o)
  \/ DoSansNil
  \/ BeforeHook
  \/ Exec
  \/ AfterHook
  \/ StepOk
  \/ StepFailed
  \/ ErrHook
  \/ ReturnErr
  \/ BindStep
  \/ ReturnOk
  \/ Exit

SpecNil == InitNil /\ [][NextNil]_vars

\* --- the specification of a Do call that goes on: every call of a step, a
\* hook or a cleanup returns or panics, so the driver always takes its next step
LiveOuts == {<<>>, <<PtrInt>>, <<PtrStr>>}

\* a step of a running Do call
DoStep ==
  \/ BeforeHook
  \/ Exec
  \/ AfterHook
  \/ StepOk
  \/ StepFailed
  \/ ErrHook
  \/ ReturnErr
  \/ BindStep
  \/ ReturnOk
  \/ RunDefer
  \/ Exit

InitLive == \E fns \in SeqsUpTo(RerunFuncs, 1) : New(fns)

NextLive ==
  \/ \E x \in RerunFuncs : Then(<<x>>)
  \/ \E h \in RerunObservers : Defer(<<h>>)
  \/ \E h \in RerunObservers : Before(<<h>>)
  \/ \E h \in RerunObservers : After(<<h>>)
  \/ \E h \in RerunObservers : OnError(<<h>>)
  \/ \E o \in LiveOuts : DoStart(o)
  \/ BeforeHook
  \/ Exec
  \/ AfterHook
  \/ StepOk
  \/ StepFailed
  \/ ErrHook
  \/ ReturnErr
  \/ BindStep
  \/ ReturnOk
  \/ RunDefer
  \/ Exit

SpecLive == InitLive /\ [][NextLive]_vars /\ WF_vars(DoStep)

\* --- the specification of the invoker alone: execFunc applied to functions,
\* to a value that is no function and to nil, with up to MaxOut arguments
ExecValues == {FGen, FInc, FMul, FStr, FAny, FTwoErr, I7, Sa, Nil}
ExecArgs == SeqsUpTo({Nil, I7, Sa}, MaxOut)

InitExec == New(<<>>)

NextExec == \E f \in ExecValues, a \in ExecArgs : ExecDirect(f, a)

SpecExec == InitExec /\ [][NextExec]_vars

\* ------------------------------------------------------------------ reading the log
Done == pc = "done"

\* Do returned to its caller (no panic left it)
DoReturned == Done /\ panicOut = ""

\* the positions of the log holding an event of kind k
At(k) == {n \in 1..Len(log) : log[n].k = k}

\* the list indexes of the events of kind k for step s, in the order they happened
IdxSeq(k, s) ==
  LET Hit(e) == e.k = k /\ e.step = s
      hits == SelectSeq(log, Hit)
  IN [n \in 1..Len(hits) |-> hits[n].idx]

\* the indexes of a hook list's entries that are not nil, ascending
FiringIdx(hooks) ==
  LET NotNil(j) == hooks[j] # "nil"
  IN SelectSeq([j \in 1..Len(hooks) |-> j], NotNil)

Reverse(s) == [n \in 1..Len(s) |-> s[Len(s) + 1 - n]]

\* execFunc returned a non-nil error for step s
StepYieldsErr(s) == \E n \in At("exec") : log[n].step = s /\ log[n].e # Nil

\* no step after s was attempted or invoked
NothingAfter(s) == \A m \in At("exec") \cup At("call") : log[m].step <= s

\* ------------------------------------------------------------------ claims
\* C1. Short-circuit: once execFunc has returned a non-nil error for step i, no
\* step with a greater index is attempted or invoked in this Do call, and Do
\* returns exactly (the ordinary outputs of step i, the error of step i).
C1_ShortCircuit ==
  \A n \in At("exec") :
    log[n].e # Nil =>
      /\ NothingAfter(log[n].step)
      /\ Done => (panicOut = "" /\ result = log[n].b /\ err = log[n].e)

\* a two-step chain whose first step was called and returned (7, boom): Do
\* returned ([7], boom)
C1_Witness ==
  /\ Done /\ Len(funcs) = 2
  /\ \E n \in At("exec") : log[n].step = 1 /\ log[n].e = Boom /\ log[n].b = <<I7>>
  /\ result = <<I7>> /\ err = Boom
  /\ \E n \in At("call") : log[n].step = 1

\* C2. Cleanups registered [c1..ck] each run exactly once per Do call, in the
\* order [ck..c1], whether the run succeeds or fails, and none runs before the
\* last step invocation and the last hook firing of the call.
C2_CleanupsLIFO ==
  /\ pc \notin {"unwind", "done"} => At("defer") = {}
  /\ \A m \in At("defer") : \A n \in (m + 1)..Len(log) : log[n].k = "defer"
  /\ Done => IdxSeq("defer", 0) = Reverse([j \in 1..Len(defers) |-> j])

\* a failed run with two cleanups: after execFunc returned the error, cleanup 2
\* ran, then cleanup 1
C2_Witness ==
  /\ Done /\ err # Nil /\ Len(defers) = 2
  /\ Len(log) >= 3
  /\ log[Len(log)].k = "defer" /\ log[Len(log)].idx = 1
  /\ log[Len(log) - 1].k = "defer" /\ log[Len(log) - 1].idx = 2
  /\ log[Len(log) - 2].k = "exec"

\* the zero value of a declared type, as the documentation gives it: 0 for a
\* number, the empty string for text, nil for an interface
ZeroValue(t) == IF t = "int" THEN I0 ELSE IF t = "string" THEN S0 ELSE Nil

\* the argument vector a, then zero values up to the declared parameters ins
Padded(a, ins) ==
  [j \in 1..Len(ins) |-> IF j <= Len(a) THEN a[j] ELSE ZeroValue(ins[j])]

\* the ordinary outputs of the step before s, empty for the first step
PrevOutputs(s) ==
  IF s = 1 THEN <<>>
  ELSE LET n == CHOOSE n \in At("exec") : log[n].step = s - 1 IN log[n].b

\* the body of step s ran, and received exactly the vector v
CalledWith(s, v) == \E m \in At("call") : log[m].step = s /\ log[m].a = v

\* the body of step s did not run
NotCalled(s) == \A m \in At("call") : log[m].step # s

\* step s declares at most one error result (the step is not misconfigured)
OneErrorAtMost(f) == Cardinality({i \in 1..Len(f.out) : f.out[i] = "error"}) <= 1

\* C3 as stated: whenever step i succeeded with outputs [a1..ak] and step i+1
\* declares n >= k parameters, step i+1 is invoked with a1..ak followed by
\* zero values; the first step is invoked with zero values only.  (Read for
\* steps that declare at most one error result.)
C3_AsStated ==
  \A n \in At("exec") :
    LET s == log[n].step
        f == funcs[s]
    IN /\ log[n].a = PrevOutputs(s)
       /\ Len(f.in) >= Len(log[n].a) /\ OneErrorAtMost(f) =>
            CalledWith(s, Padded(log[n].a, f.in))

\* a can be passed to f: f declares at most one error result, and every value
\* of a is non-nil and of a type assignable to the parameter at its position
Passable(f, a) ==
  /\ OneErrorAtMost(f)
  /\ \A j \in 1..Len(a) :
       a[j] # Nil /\ (a[j].t = f.in[j] \/ f.in[j] = "interface")

\* C3, amended: a step that declares n >= k parameters is handed the k
\* ordinary outputs of the step before it (none for the first step); it is
\* invoked with them, followed by zero values, when they can be passed to it,
\* and is otherwise not invoked, the step yielding a non-nil error and no output.
C3_PaddedThreading ==
  \A n \in At("exec") :
    LET s == log[n].step
        f == funcs[s]
        a == log[n].a
    IN /\ a = PrevOutputs(s)
       /\ Len(f.in) >= Len(a) =>
            IF Passable(f, a)
            THEN CalledWith(s, Padded(a, f.in))
            ELSE NotCalled(s) /\ log[n].e # Nil /\ log[n].b = <<>>

\* the second step, func(int, int) int, was invoked with (7, 0) after the first
\* step returned (7, nil)
C3_Witness ==
  /\ Len(funcs) = 2 /\ funcs[2] = FMul
  /\ \E n \in At("exec") : log[n].step = 1 /\ log[n].b = <<I7>> /\ log[n].e = Nil
  /\ CalledWith(2, <<I7, I0>>)

\* C4. A panic of a step's body does not leave Do: the step yields a non-nil
\* error, no later step is attempted, the After hooks and every error hook
\* fire for that step and every cleanup runs, as for a declared error; Do
\* returns a non-nil error.
C4_StepPanicContained ==
  \A m \in At("call") :
    log[m].h = "panic" =>
      LET s == log[m].step
      IN /\ panicOut = ""
         /\ StepYieldsErr(s)
         /\ NothingAfter(s)
         /\ Done => /\ err # Nil
                    /\ IdxSeq("after", s) = FiringIdx(afterHooks)
                    /\ IdxSeq("error", s) = FiringIdx(errHooks)
                    /\ Len(IdxSeq("defer", 0)) = Len(defers)

\* the first of two steps panicked: Do returned an error after an error hook
\* fired and a cleanup ran
C4_Witness ==
  /\ Done /\ panicOut = "" /\ err # Nil
  /\ Len(funcs) = 2
  /\ \E m \in At("call") : log[m].step = 1 /\ log[m].h = "panic"
  /\ At("error") # {} /\ At("defer") # {}

\* C5. A panic of a pre-hook, post-hook, error hook or cleanup never leaves Do,
\* and every other hook of its list (for that step) and every other cleanup
\* still runs, wherever in its list the panicking one stands.
C5_ObserverPanicsContained ==
  /\ panicOut # PanicHook
  /\ Done =>
       /\ \A n \in At("exec") :
            /\ IdxSeq("before", log[n].step) = FiringIdx(beforeHooks)
            /\ IdxSeq("after", log[n].step) = FiringIdx(afterHooks)
            /\ log[n].e # Nil => IdxSeq("error", log[n].step) = FiringIdx(errHooks)
       /\ {log[n].idx : n \in At("defer")} = 1..Len(defers)

\* the first of two Before hooks panicked and the second still fired; the step
\* ran and Do returned
C5_Witness ==
  /\ DoReturned
  /\ beforeHooks = <<"panic", "ok">>
  /\ \E n \in At("before") :
       /\ n < Len(log)
       /\ log[n].idx = 1 /\ log[n].h = "panic"
       /\ log[n + 1].k = "before" /\ log[n + 1].idx = 2 /\ log[n + 1].step = log[n].step
  /\ At("call") # {}

\* step s was invoked and its body returned without an error value
StepSucceeded(s) ==
  \E m \in At("call") :
    /\ log[m].step = s /\ log[m].h = "ok"
    /\ \A j \in 1..Len(log[m].b) : log[m].b[j] # Boom

\* C6. The error Do returns is nil if and only if every registered step was
\* invoked and none produced an error; a run in which a step yielded an error
\* returns a non-nil error.
C6_ReturnContract ==
  /\ DoReturned => (err = Nil <=> \A s \in 1..Len(funcs) : StepSucceeded(s))
  /\ Done /\ (\E s \in 1..Len(funcs) : StepYieldsErr(s)) => panicOut = "" /\ err # Nil

\* both steps of a two-step chain were invoked and Do returned a nil error
C6_Witness ==
  /\ DoReturned /\ err = Nil /\ Len(funcs) = 2
  /\ StepSucceeded(1) /\ StepSucceeded(2)

\* the values of ret at the positions whose declared type is not error
RECURSIVE Ordinary(_, _)
Ordinary(ret, outs) ==
  IF ret = <<>> THEN <<>>
  ELSE (IF Head(outs) = "error" THEN <<>> ELSE <<Head(ret)>>)
         \o Ordinary(Tail(ret), Tail(outs))

\* C7. On a succeeded run of a chain with at least one step, the result Do
\* returns is what the last step's body returned, in declared order, without
\* the value at the error-typed position and with nothing else removed or added.
C7_ResultIsLastOutputs ==
  DoReturned /\ err = Nil /\ Len(funcs) >= 1 =>
    \E m \in At("call") :
      /\ log[m].step = Len(funcs)
      /\ result = Ordinary(log[m].b, funcs[Len(funcs)].out)

\* the last step, func(interface{}) (error, string), returned (nil, "a") and
\* Do returned ["a"]
C7_Witness ==
  /\ DoReturned /\ err = Nil
  /\ Len(funcs) >= 1 /\ funcs[Len(funcs)] = FAny
  /\ \E m \in At("call") : log[m].step = Len(funcs) /\ log[m].b = <<Nil, Sa>>
  /\ result = <<Sa>>

\* the destination is as the caller passed it
Untouched(d) == d \in DataDests

\* C8. When Do returns a nil error with result o, every destination that is a
\* non-nil pointer at an index below len(o) holds o[i]; every destination at
\* an index from len(o) on is unchanged; a destination that is no (non-nil)
\* pointer is skipped, unchanged, and the others are bound all the same.
C8_OutputBinding ==
  DoReturned /\ err = Nil =>
    \A i \in 1..Len(out) :
      /\ out[i].k = "ptr" /\ i <= Len(result) => out[i].val = result[i]
      /\ i > Len(result) => Untouched(out[i])
      /\ out[i].k # "ptr" => Untouched(out[i])

\* Do(x, &s) with x not a pointer returned [7, "a"]: x was skipped, s is "a"
C8_Witness ==
  /\ DoReturned /\ err = Nil
  /\ result = <<I7, Sa>>
  /\ Len(out) = 2 /\ out[1] = NotPtr /\ out[2].k = "ptr" /\ out[2].val = Sa

\* the first k values of a
FirstN(a, k) == [j \in 1..k |-> a[j]]

\* C9 as stated: a step handed more arguments than it declares parameters is
\* invoked with the first n of them, and the step yields what its body
\* returned: no error is made of the surplus.  (Read for steps that declare at
\* most one error result.)
C9_ExcessDropped ==
  \A n \in At("exec") :
    LET s == log[n].step
        f == funcs[s]
    IN Len(log[n].a) > Len(f.in) /\ OneErrorAtMost(f) =>
         /\ CalledWith(s, FirstN(log[n].a, Len(f.in)))
         /\ \E m \in At("call") :
              /\ log[m].step = s
              /\ log[m].h = "ok" => log[n].b = Ordinary(log[m].b, f.out)

\* destination i is a non-nil pointer to a variable whose type the non-nil
\* final output i cannot be assigned to
Incompatible(i) ==
  /\ i <= Len(out) /\ i <= Len(args)
  /\ out[i].k = "ptr"
  /\ args[i] # Nil
  /\ ~(args[i].t = out[i].et \/ out[i].et = "interface")

\* C10 as stated: when every step succeeded (with non-nil final outputs), Do
\* returns (finalOutputs, nil) and no panic leaves it, whatever the types of
\* the destinations; a destination the output at its index is not
\* type-compatible with is left unchanged.
C10_BindingNeverFails ==
  Done /\ (\A s \in 1..Len(funcs) : StepSucceeded(s))
       /\ (\A i \in 1..Len(args) : args[i] # Nil) =>
    /\ panicOut = "" /\ err = Nil /\ result = args
    /\ \A i \in 1..Len(out) : Incompatible(i) => Untouched(out[i])

\* the functions among the arguments fns, in the order given
CallableOf(fns) ==
  LET Callable(x) == x.t = "func"
  IN SelectSeq(fns, Callable)

\* C11. New and Then skip every argument that is not callable, nil included,
\* without raising: no call of New ends in a panic, and every call of Then
\* returns and leaves the step list equal to the previous step list followed
\* by exactly the callable arguments, in the order given.
C11_SkipsNonCallable ==
  /\ [](pc # "nochain")
  /\ [][\A fns \in ArgLists(BuildArgs) :
          Then(fns) => /\ panicOut' = ""
                       /\ funcs' = funcs \o CallableOf(fns)]_vars

\* C12. A step that declares more than one error result is never invoked:
\* execFunc returns the error "more than one error" for it without a call, no
\* later step is attempted or invoked, and Do returns that error.
C12_TwoErrorsRejected ==
  /\ \A m \in At("call") : OneErrorAtMost(funcs[log[m].step])
  /\ \A n \in At("exec") :
       ~OneErrorAtMost(funcs[log[n].step]) =>
         /\ log[n].e = ErrMoreThanOne /\ log[n].b = <<>>
         /\ NothingAfter(log[n].step)
         /\ Done => (panicOut = "" /\ err = ErrMoreThanOne)

\* the step func() (error, error) stood first of two: Do returned "more than one error" and
\* neither step was invoked
C12_Witness ==
  /\ DoReturned /\ err = ErrMoreThanOne
  /\ Len(funcs) = 2 /\ funcs[1] = FTwoErr
  /\ \E n \in At("exec") : log[n].step = 1
  /\ At("call") = {}

\* the positions of the log at which a hook fired
HookEvents == At("before") \cup At("after") \cup At("error")

\* C13. On a chain with no steps, whatever hooks and cleanups are registered,
\* Do fires no pre-hook, post-hook or error hook, invokes nothing, and returns
\* an empty result and a nil error.
C13_EmptyChain ==
  funcs = <<>> =>
    /\ HookEvents = {} /\ At("call") = {} /\ At("exec") = {}
    /\ Done => (panicOut = "" /\ result = <<>> /\ err = Nil)

\* Do(&n) returned on a chain with no steps, a pre-hook and a cleanup: only
\* the cleanup ran
C13_Witness ==
  /\ DoReturned /\ funcs = <<>>
  /\ Len(beforeHooks) = 1 /\ Fires(beforeHooks[1]) /\ Len(defers) = 1
  /\ out = <<PtrInt>>
  /\ Len(log) = 1 /\ log[1].k = "defer"

\* C14. An error hook fires only for a step that yielded a non-nil error, and
\* is handed that step's ordinary outputs and that error; once the hooks of
\* the failing step are through, every registered non-nil error hook has
\* fired exactly once, in registration order; when Do returns a nil error no
\* error hook has fired.
C14_ErrorHooks ==
  /\ \A m \in At("error") :
       \E n \in At("exec") :
         /\ n < m /\ log[n].step = log[m].step /\ log[n].e # Nil
         /\ log[m].a = log[n].b /\ log[m].e = log[n].e
  /\ \A n \in At("exec") :
       log[n].e # Nil /\ pc \in {"unwind", "done"} =>
         IdxSeq("error", log[n].step) = FiringIdx(errHooks)
  /\ DoReturned /\ err = Nil => At("error") = {}

\* the first step returned (7, boom); the two error hooks, the first of which
\* panics, fired in order, each with ([7], boom)
C14_Witness ==
  /\ DoReturned /\ errHooks = <<"panic", "ok">>
  /\ \E n \in At("exec") : log[n].step = 1 /\ log[n].b = <<I7>> /\ log[n].e = Boom
  /\ IdxSeq("error", 1) = <<1, 2>>
  /\ \A m \in At("error") : log[m].a = <<I7>> /\ log[m].e = Boom

\* the place of an event of kind k among the events of one step
Rank(k) ==
  CASE k = "before" -> 1
    [] k = "call" -> 2
    [] k = "exec" -> 3
    [] k = "after" -> 4
    [] k = "error" -> 5
    [] OTHER -> 6

\* event a stands before event b in the order (step, kind, list index)
Precedes(a, b) ==
  \/ a.step < b.step
  \/ a.step = b.step /\ Rank(a.k) < Rank(b.k)
  \/ a.step = b.step /\ a.k = b.k /\ a.idx < b.idx

\* C15. The events of a Do call happen step by step, and within a step as
\* pre-hooks (in registration order, each once), invocation, post-hooks (in
\* registration order, each once), error hooks; every non-nil pre-hook has
\* fired when the step is invoked and every non-nil post-hook when the driver
\* has left the post-hooks of the step; no hook fires for a step after one
\* that yielded an error.
C15_EventOrder ==
  /\ \A m, n \in 1..Len(log) :
       m < n /\ log[m].k # "defer" /\ log[n].k # "defer" => Precedes(log[m], log[n])
  /\ \A n \in At("exec") :
       LET s == log[n].step
       IN /\ IdxSeq("before", s) = FiringIdx(beforeHooks)
          /\ (pc # "after" \/ fnIdx # s) => IdxSeq("after", s) = FiringIdx(afterHooks)
          /\ log[n].e # Nil => \A m \in HookEvents : log[m].step <= s
  /\ \A m \in HookEvents : log[m].step \in 1..Len(funcs)

\* two steps, one pre-hook, one post-hook, both steps succeeded: pre-hook,
\* invocation, post-hook for step 1, then the same for step 2
C15_Witness ==
  /\ DoReturned /\ err = Nil /\ Len(funcs) = 2
  /\ Len(beforeHooks) = 1 /\ Len(afterHooks) = 1
  /\ Len(log) = 8
  /\ [n \in 1..8 |-> log[n].k] =
       <<"before", "call", "exec", "after", "before", "call", "exec", "after">>
  /\ [n \in 1..8 |-> log[n].step] = <<1, 1, 1, 1, 2, 2, 2, 2>>

\* C16. A failed run writes no destination: from the moment a step has yielded
\* a non-nil error (a declared error, a panic, a rejected signature), and when
\* Do has returned a non-nil error, every destination passed to Do holds what
\* it held before the call.
C16_FailedRunWritesNothing ==
  /\ (\E s \in 1..Len(funcs) : StepYieldsErr(s)) =>
       \A i \in 1..Len(out) : Untouched(out[i])
  /\ DoReturned /\ err # Nil => \A i \in 1..Len(out) : Untouched(out[i])

\* Do(&n) on a chain whose first step succeeded with [7] and whose second
\* step failed: Do returned the error and n is still 0
C16_Witness ==
  /\ DoReturned /\ err # Nil /\ Len(funcs) = 2
  /\ \E n \in At("exec") : log[n].step = 1 /\ log[n].b = <<I7>> /\ log[n].e = Nil
  /\ StepYieldsErr(2)
  /\ args = <<I7>> /\ out = <<PtrInt>>

\* destination i is a non-nil pointer to a variable whose type takes args[i]
BindableAt(i) ==
  /\ out[i].k = "ptr"
  /\ args[i].t = out[i].et \/ out[i].et = "interface"

\* C17 as stated: when Do has returned, with a nil error or with a non-nil
\* one, each writable, type-compatible destination i below min(len(args),
\* len(out)) holds args[i], args being the driver's argument vector when the
\* run ended.  (Read for runs in which the body of every attempted step ran.)
C17_AsStated ==
  DoReturned /\ (\A n \in At("exec") : ~NotCalled(log[n].step)) =>
    \A i \in 1..Len(out) : i <= Len(args) /\ BindableAt(i) => out[i].val = args[i]

\* C17, amended: no destination is written while the steps run; when Do
\* returns a nil error each writable, type-compatible destination i below
\* min(len(args), len(out)) holds args[i]; when Do returns a non-nil error
\* no destination has been written.
C17_BindingOnSuccessOnly ==
  /\ pc \in {"before", "after", "onerror"} => \A i \in 1..Len(out) : Untouched(out[i])
  /\ DoReturned /\ err = Nil =>
       \A i \in 1..Len(out) : i <= Len(args) /\ BindableAt(i) => out[i].val = args[i]
  /\ DoReturned /\ err # Nil => \A i \in 1..Len(out) : Untouched(out[i])

\* Do(&n, &s) on a chain whose first step succeeded with [7, "a"] and whose
\* second step failed: the argument vector is still [7, "a"], n is 0, s is ""
C17_Witness ==
  /\ DoReturned /\ err # Nil /\ Len(funcs) = 2
  /\ args = <<I7, Sa>> /\ out = <<PtrInt, PtrStr>>
  /\ BindableAt(1) /\ BindableAt(2)

\* C18. When a panic leaves Do after the steps have run (dst.Set panics while
\* the outputs are bound), every registered cleanup has run before it does,
\* each exactly once, the last registered first.
C18_ReleaseOnPanic ==
  Done /\ panicOut # "" =>
    IdxSeq("defer", 0) = Reverse([j \in 1..Len(defers) |-> j])

\* Do(&s), s a string, on a chain that ends with the output 7 and has two
\* cleanups: the panic of Set left Do after cleanup 2, then cleanup 1, had run
C18_Witness ==
  /\ Done /\ panicOut = PanicSet
  /\ out = <<PtrStr>> /\ args = <<I7>>
  /\ Len(defers) = 2 /\ IdxSeq("defer", 0) = <<2, 1>>
  /\ \E m \in At("call") : log[m].step = Len(funcs)

\* list a is the beginning of list b
IsPrefix(a, b) == Len(a) <= Len(b) /\ SubSeq(b, 1, Len(a)) = a

\* C19. Builder calls are append-only and order-preserving: every call of
\* Then, Defer, Before, After or OnError on a chain made by New returns the
\* chain, leaves each list as it was or longer at its end, changes no list but
\* its own, and appends to its own list exactly its accepted arguments (for
\* Then the callable ones, for the others all of them) in the order given;
\* Do invokes the steps in ascending list order.
C19_AppendOnly ==
  /\ [](\A m, n \in At("call") : m < n => log[m].step < log[n].step)
  /\ [][/\ pc' = "idle" =>
            /\ panicOut' = ""
            /\ \A i \in 1..5 : IsPrefix(chain[i], chain'[i])
            /\ \A i, j \in 1..5 :
                 chain'[i] # chain[i] /\ chain'[j] # chain[j] => i = j
        /\ \A fns \in ArgLists(BuildArgs) :
             Then(fns) => funcs' = funcs \o CallableOf(fns)
        /\ \A fs \in ArgLists(Observers) :
             /\ Defer(fs) => defers' = defers \o fs
             /\ Before(fs) => beforeHooks' = beforeHooks \o fs
             /\ After(fs) => afterHooks' = afterHooks \o fs
             /\ OnError(fs) => errHooks' = errHooks \o fs]_vars

\* C20. Do does not change the chain: every step of a Do call, from its start
\* to its return or to the panic that leaves it, leaves fc.funcs, fc.defers,
\* fc.beforeHooks, fc.afterHooks and fc.errHooks as they were.
C20_DoKeepsChain == [][pc' # "idle" => chain' = chain]_vars

\* a Do call has ended in which a Before hook and a cleanup panicked, on a
\* chain that still holds that hook and that cleanup
C20_Witness ==
  /\ Done /\ funcs # <<>>
  /\ beforeHooks = <<"panic">> /\ defers = <<"panic">>
  /\ \E m \in At("before") : log[m].h = "panic"
  /\ \E m \in At("defer") : log[m].h = "panic"

\* C21. A second Do call on the same chain starts from scratch: its first step
\* is handed the empty argument vector, and, the callables being
\* deterministic, when it has ended it has made the same step invocations and
\* hook firings and run the cleanups in the same way as the call before it
\* (every cleanup once), and it returns the same result and error.
C21_RerunFromScratch ==
  prev.again =>
    /\ \A n \in At("exec") \cup At("before") : log[n].step = 1 => log[n].a = <<>>
    /\ Done =>
         /\ log = prev.log /\ result = prev.result /\ err = prev.err
         /\ IdxSeq("defer", 0) = Reverse([j \in 1..Len(defers) |-> j])

\* the second Do call on a two-step chain with a cleanup has ended as the
\* first did: both steps invoked, [7] and a nil error returned
C21_Witness ==
  /\ prev.again /\ DoReturned
  /\ Len(funcs) = 2 /\ Len(defers) = 1
  /\ result = <<I7>> /\ err = Nil /\ prev.result = <<I7>>
  /\ \E m \in At("call") : log[m].step = 2
  /\ At("defer") # {}

\* C22. A failing step still has its hooks and the chain its cleanups: when a
\* step has yielded a non-nil error, for whatever reason, every non-nil
\* pre-hook has fired for it; once the driver is past the post-hooks, every
\* non-nil post-hook has fired for it, each before any error hook; no later
\* step is attempted; and when Do is left every non-nil error hook has fired
\* and every cleanup has run, after all the hooks.
C22_FailingStepKeepsHooks ==
  \A n \in At("exec") :
    log[n].e # Nil =>
      LET s == log[n].step
      IN /\ IdxSeq("before", s) = FiringIdx(beforeHooks)
         /\ pc \in {"onerror", "unwind", "done"} =>
              IdxSeq("after", s) = FiringIdx(afterHooks)
         /\ \A a \in At("after"), e \in At("error") : a < e
         /\ NothingAfter(s)
         /\ Done =>
              /\ IdxSeq("error", s) = FiringIdx(errHooks)
              /\ IdxSeq("defer", 0) = Reverse([j \in 1..Len(defers) |-> j])
              /\ \A h \in HookEvents, d \in At("defer") : h < d

\* the first of two steps declares two error results: it was not invoked, its
\* post-hook fired, then the cleanup ran, and Do returned the error
C22_Witness ==
  /\ DoReturned /\ err = ErrMoreThanOne
  /\ Len(funcs) = 2 /\ funcs[1] = FTwoErr
  /\ Len(afterHooks) = 1 /\ Len(defers) = 1
  /\ [n \in 1..Len(log) |-> log[n].k] = <<"exec", "after", "defer">>

\* C23. For every attempted step, each pre-hook is handed the current argument
\* vector: empty for the first step, the ordinary outputs of the step before
\* otherwise; each post-hook is handed that same vector and the ordinary
\* outputs of the step, which are empty when the step was not called or its
\* body panicked.
C23_HookArguments ==
  /\ \A m \in At("before") : log[m].a = PrevOutputs(log[m].step)
  /\ \A m \in At("after") :
       LET s == log[m].step
       IN /\ log[m].a = PrevOutputs(s)
          /\ \E n \in At("exec") : n < m /\ log[n].step = s /\ log[m].b = log[n].b
          /\ NotCalled(s) => log[m].b = <<>>
          /\ \A c \in At("call") :
               log[c].step = s =>
                 log[m].b = IF log[c].h = "panic" THEN <<>>
                            ELSE Ordinary(log[c].b, funcs[s].out)

\* the second step was handed [7] and panicked: its pre-hook received [7], its
\* post-hook ([7], [])
C23_Witness ==
  /\ Done /\ Len(funcs) = 2
  /\ \E c \in At("call") : log[c].step = 2 /\ log[c].h = "panic"
  /\ \E m \in At("before") : log[m].step = 2 /\ log[m].a = <<I7>>
  /\ \E m \in At("after") : log[m].step = 2 /\ log[m].a = <<I7>> /\ log[m].b = <<>>

\* the invocations of a run: the events of its log that are a body run or
\* a return of execFunc, with the arguments, the outputs and the error
Primary(l) ==
  LET IsPrimary(ev) == ev.k \in {"call", "exec"}
  IN SelectSeq(l, IsPrimary)

\* C24. Panics of hooks and cleanups do not influence the primary flow: of two
\* runs of a chain that differ only in which hooks and cleanups panic, the
\* steps being deterministic, the second makes the same step invocations with
\* the same arguments as the first, Do returns the same result and error, no
\* panic leaves either, and the destinations hold the same values.
C24_ObserversDoNotInfluence ==
  prev.again /\ Done =>
    /\ Primary(log) = Primary(prev.log)
    /\ result = prev.result /\ err = prev.err
    /\ panicOut = "" /\ prev.panicOut = ""
    /\ out = prev.out

\* the pre-hook returned in the first run and panicked in the second; both
\* runs invoked both steps, returned [7] and bound 7 to the destination
C24_Witness ==
  /\ prev.again /\ Done /\ Len(funcs) = 2
  /\ beforeHooks = <<"panic">>
  /\ \E m \in 1..Len(prev.log) : prev.log[m].k = "before" /\ prev.log[m].h = "ok"
  /\ \E m \in At("before") : log[m].h = "panic"
  /\ \E c \in At("call") : log[c].step = 2
  /\ result = <<I7>> /\ out = <<[PtrInt EXCEPT !.val = I7]>> /\ prev.out = out

\* the hook firings of a run, in order, without their list indexes
Fired(l) ==
  LET IsHook(ev) == ev.k \in {"before", "after", "error"}
      hits == SelectSeq(l, IsHook)
  IN [n \in 1..Len(hits) |->
        [k |-> hits[n].k, step |-> hits[n].step, h |-> hits[n].h,
         a |-> hits[n].a, b |-> hits[n].b, e |-> hits[n].e]]

\* C25. A nil hook is accepted at registration and skipped at fire time:
\* Before, After and OnError return and append it like any hook; in Do no nil
\* entry is called and no panic leaves Do, the non-nil pre-hooks have all
\* fired, in order, when a step is attempted; and a run on the same chain
\* without the nil entries makes the same step invocations and the same hook
\* firings and returns the same result and error.
C25_NilHooksSkipped ==
  /\ [](/\ \A m \in HookEvents : log[m].h # "nil"
        /\ panicOut = ""
        /\ \A n \in At("exec") :
             IdxSeq("before", log[n].step) = FiringIdx(beforeHooks)
        /\ prev.again /\ Done =>
             /\ Primary(log) = Primary(prev.log)
             /\ Fired(log) = Fired(prev.log)
             /\ result = prev.result /\ err = prev.err /\ out = prev.out)
  /\ [][/\ Before(<<"nil">>) => panicOut' = "" /\ beforeHooks' = Append(beforeHooks, "nil")
        /\ After(<<"nil">>) => panicOut' = "" /\ afterHooks' = Append(afterHooks, "nil")
        /\ OnError(<<"nil">>) => panicOut' = "" /\ errHooks' = Append(errHooks, "nil")]_vars

\* the first run had a nil pre-hook before a non-nil one, the second run only
\* the non-nil one: in both it fired once for the step, and Do returned [7]
C25_Witness ==
  /\ prev.again /\ Done
  /\ beforeHooks = <<"ok">>
  /\ \E m \in 1..Len(prev.log) :
       prev.log[m].k = "before" /\ prev.log[m].idx = 2 /\ prev.log[m].h = "ok"
  /\ \E m \in At("before") : log[m].idx = 1
  /\ result = <<I7>> /\ prev.result = <<I7>>

\* the vector a holds a nil value, and each of its values can stand in the
\* parameter of f at its position: a nil value in a parameter of type
\* interface{}, any other in a parameter of its own type or of interface{}
NilPassable(f, a) ==
  /\ OneErrorAtMost(f)
  /\ Len(f.in) >= Len(a)
  /\ \E j \in 1..Len(a) : a[j] = Nil
  /\ \A j \in 1..Len(a) :
       IF a[j] = Nil THEN f.in[j] = "interface"
       ELSE a[j].t = f.in[j] \/ f.in[j] = "interface"

\* C26 as stated: a nil interface value among a step's ordinary outputs is
\* threaded like any other value: the next step is invoked and receives it in
\* its position (zero values after the outputs), the step yields what its body
\* returned and no error made by the invoker; when every step has succeeded
\* Do returns the final outputs with the nil value in them, no panic leaves
\* it, and a destination of type interface{} at the position of the nil value
\* holds nil.
C26_NilThreaded ==
  /\ \A n \in At("exec") :
       LET s == log[n].step
           f == funcs[s]
       IN NilPassable(f, log[n].a) =>
            /\ CalledWith(s, Padded(log[n].a, f.in))
            /\ log[n].e \in {Nil, Boom}
  /\ Done /\ (\A s \in 1..Len(funcs) : StepSucceeded(s))
          /\ (\E i \in 1..Len(args) : args[i] = Nil) =>
       /\ panicOut = "" /\ err = Nil /\ result = args
       /\ \A i \in 1..Len(out) :
            i <= Len(args) /\ args[i] = Nil /\ out[i] = PtrAny => out[i].val = Nil

\* C27. Every element of the step list is a function value, whatever New and
\* Then were handed; so execFunc never returns "not a function" for a step,
\* and Do never returns that error.
C27_StepsAreFunctions ==
  /\ \A i \in 1..Len(funcs) : funcs[i].t = "func"
  /\ \A n \in At("exec") : log[n].e # ErrNotFunc
  /\ err # ErrNotFunc

\* Then was handed nil and panicked: the step list holds one step, a function
C27_Witness ==
  /\ pc = "idle" /\ panicOut = PanicNilDeref
  /\ Len(funcs) = 1 /\ funcs[1].t = "func"

\* a Do call is running
Running == pc \notin {"idle", "done", "nochain"}

\* C28. Do terminates and is bounded by the step list: every Do call is
\* eventually left, by its return or, when dst.Set panics in the loop over
\* out, by that panic; within a Do call each step is invoked at most once,
\* the steps invoked are steps 1..k of the list in that order, step i+1 only
\* after step i returned without an error, and never more steps are invoked
\* than are registered.
C28_Terminates ==
  /\ Running ~> Done
  /\ [](/\ Done => panicOut \in {"", PanicSet}
        /\ \A m, n \in At("call") : m < n => log[m].step < log[n].step
        /\ \A n \in At("call") :
             /\ log[n].step \in 1..Len(funcs)
             /\ \A i \in 1..(log[n].step - 1) : StepSucceeded(i)
        /\ Cardinality(At("call")) <= Len(funcs))

\* a Do call on two steps, one hook and one cleanup has ended: both steps
\* were invoked, once each
C28_Witness ==
  /\ Done /\ Len(funcs) = 2
  /\ [n \in 1..Len(Primary(log)) |-> Primary(log)[n].step] = <<1, 1, 2, 2>>
  /\ Len(beforeHooks) = 1 /\ Len(defers) = 1

\* C29 as stated: for every value that is not callable, nil included,
\* execFunc returns the error "not a function": nothing is invoked and no
\* panic leaves it.
C29_NonFunctionGuard ==
  \A n \in At("direct") :
    log[n].b[1].t # "func" =>
      /\ panicOut = ""
      /\ err = ErrNotFunc /\ args2 = <<>>
      /\ At("call") = {}
====
